---- MODULE Spec2Model ----
(***************************************************************************)
(* Model of the Web sender of gorush (PushToWeb) and of the request        *)
(* validator (CheckMessage) with the request-scoped helpers WaitDone,      *)
(* AddWaitCount, AddLog and IsTopic.                                       *)
(*                                                                         *)
(* A worker w executes PushToWeb on the request req[w].  The callers, the  *)
(* platform client (WebClient.Push) and the counter store (StatStorage)    *)
(* are the environment: the client answers each call with one of three     *)
(* outcomes, the store adds atomically.                                    *)
(***************************************************************************)
EXTENDS Integers, Sequences, FiniteSets, TLC

\* ------------------------------------------------------------------ bounds
MaxSubs == 2          \* longest Subscriptions list of a request
MaxConfRetry == 2     \* largest configured PushConf.Web.MaxRetry
NumWorkers == 2       \* workers of the pool
MaxHelperCalls == 3   \* most calls of one helper made on a request by its holder

\* ------------------------------------------------------- program constants
PlatformIos == 1
PlatformAndroid == 2
PlatformWeb == 3
MaxTokens == 1000
MaxTimeToLive == 2419200

Workers == 1..NumWorkers

\* error values of CheckMessage; NoError is Go's nil error
NoError == "nil"
ErrNoSubscription == "the message must specify at least one subscription"
ErrNoRegistrationID == "the message must specify at least one registration ID"
ErrEmptyToken == "the token must not be empty"
ErrTooManyTokens == "the message may specify at most 1000 registration IDs"
ErrTimeToLive == "the message's TimeToLive field must be an integer between 0 and 2419200 (4 weeks)"

\* a string with a prefix test is a sequence of characters
TopicsPrefix == <<"/", "t", "o", "p", "i", "c", "s", "/">>

HasPrefix(s, prefix) ==
    /\ Len(s) >= Len(prefix)
    /\ SubSeq(s, 1, Len(prefix)) = prefix

\* a web push subscription; k stands for its endpoint, key and auth strings
Subscription(k) == [Endpoint |-> k, Key |-> k, Auth |-> k]

SubscriptionList(n) == [i \in 1..n |-> Subscription(i)]

TokenList(n) == [i \in 1..n |-> "t"]

\* ------------------------------------------------------------- validation
IsTopic(p) ==
    \/ (p.Platform = PlatformAndroid /\ p.To # <<>> /\ HasPrefix(p.To, TopicsPrefix))
    \/ p.Condition # ""

\* the rule of line 145 applied to Android requests only
NoRegistrationIDAndroidOnly(r) ==
    r.Platform = PlatformAndroid /\ ~IsTopic(r) /\ Len(r.Tokens) = 0 /\ Len(r.To) = 0

\* line 145: neither a topic, nor a token, nor a To
NoRegistrationID(r) == ~IsTopic(r) /\ Len(r.Tokens) = 0 /\ Len(r.To) = 0

\* line 151
EmptyFirstToken(r) == Len(r.Tokens) > 0 /\ r.Tokens[1] = ""

\* the limit of line 157 compared one too high
TooManyTokensOffByOne(r) == r.Platform = PlatformAndroid /\ Len(r.Tokens) > MaxTokens + 1

\* line 157
TooManyTokens(r) == r.Platform = PlatformAndroid /\ Len(r.Tokens) > MaxTokens

\* line 164; TimeToLive is *uint: <<>> is the nil pointer, <<v>> points to v
BadTimeToLive(r) ==
    /\ r.Platform = PlatformAndroid
    /\ r.TimeToLive # <<>>
    /\ (r.TimeToLive[1] < 0 \/ MaxTimeToLive < r.TimeToLive[1])

\* lines 138-142
CheckWeb(r) == IF Len(r.Subscriptions) = 0 THEN ErrNoSubscription ELSE NoError

\* the rules of lines 144-169 with the token count checked before the first token
CheckOtherSwapped(r) ==
    IF NoRegistrationID(r) THEN ErrNoRegistrationID
    ELSE IF TooManyTokens(r) THEN ErrTooManyTokens
    ELSE IF EmptyFirstToken(r) THEN ErrEmptyToken
    ELSE IF BadTimeToLive(r) THEN ErrTimeToLive
    ELSE NoError

\* lines 144-169
CheckOther(r) ==
    IF NoRegistrationID(r) THEN ErrNoRegistrationID
    ELSE IF EmptyFirstToken(r) THEN ErrEmptyToken
    ELSE IF TooManyTokens(r) THEN ErrTooManyTokens
    ELSE IF BadTimeToLive(r) THEN ErrTimeToLive
    ELSE NoError

\* the rules of the other platforms applied to a Web request that has subscriptions
CheckMessageFallThrough(r) ==
    IF r.Platform = PlatformWeb /\ Len(r.Subscriptions) = 0
    THEN ErrNoSubscription
    ELSE CheckOther(r)

CheckMessage(r) == IF r.Platform = PlatformWeb THEN CheckWeb(r) ELSE CheckOther(r)

\* ------------------------------------------------------------------ state
VARIABLES
    conf,          \* PushConf.Web.MaxRetry
    webSuccess,    \* StatStorage: total of the Web success counter
    webError,      \* StatStorage: total of the Web failure counter
    req,           \* req[w]: the PushNotification worker w sends
    wg,            \* wg[w]: counter of the WaitGroup req[w].wg points to
    log,           \* log[w]: the slice req[w].log points to
    caller,        \* caller[w]: the submitter of req[w]: "none", "waiting", "released"
    pc,            \* pc[w]: where worker w is in PushToWeb
    doSync, retryCount, maxRetry, err,            \* locals of PushToWeb, per worker
    isError, successCount, failureCount, idx,     \* locals of one attempt, per worker
    ret,           \* ret[w]: the value PushToWeb returned
    hist,          \* hist[w]: per attempt, the outcomes of the client calls made
    calls,         \* calls[w]: the subscriptions passed to WebClient.Push, in order
    statCalls,     \* statCalls[w]: calls of AddWebSuccess / AddWebError made
    helperCalls    \* helperCalls[w]: calls of AddWaitCount / WaitDone / AddLog made on req[w]

locals == <<doSync, retryCount, maxRetry, err, isError, successCount, failureCount, idx>>
store == <<webSuccess, webError>>
vars == <<conf, store, req, wg, log, caller, pc, locals, ret, hist, calls, statCalls,
          helperCalls>>

\* ---------------------------------------------------- request-scoped helpers
\* the request p carries wg (a pointer, nil when hasWg is false); c is the
\* counter of the WaitGroup it points to
\* a WaitDone that forgets the Done
WaitDoneSkipped(p, c) == c

WaitDone(p, c) == IF p.hasWg THEN c - 1 ELSE c

\* an AddWaitCount without the nil test
AddWaitCountUnguarded(p, c) == c + 1

AddWaitCount(p, c) == IF p.hasWg THEN c + 1 ELSE c

\* an entry put in front of the log
AddLogFront(p, l, entry) == IF p.hasLog THEN <<entry>> \o l ELSE l

\* l is the slice p.log points to (nil pointer when hasLog is false)
AddLog(p, l, entry) == IF p.hasLog THEN Append(l, entry) ELSE l

\* sync.WaitGroup.Done panics once it has brought the counter below zero
Panics(c) == c < 0

NoHelperCalls == [adds |-> 0, dones |-> 0, logs |-> 0]

\* ------------------------------------------------------------ environment
\* WebClient.Push returns (response, err)
Ok == "ok"                    \* err = nil
ErrNoResponse == "no-response"    \* err # nil, response = nil
ErrStatus == "status"         \* err # nil, response # nil
Outcomes == {Ok, ErrNoResponse, ErrStatus}

FailedPush == "failed-push"

webToken(subscription) ==
    [endpoint |-> subscription.Endpoint, key |-> subscription.Key, auth |-> subscription.Auth]

\* the entry of a push: its status and its token; the error text of the entry
\* (err.Error() when there is no response, the response's status code otherwise)
\* and the snapshot of the request are left out
getLogPushEntry(status, token) == [Type |-> status, Token |-> token]

\* StatStorage.AddWebSuccess / AddWebError: atomic additions
AddWebSuccess(count) == webSuccess + count
AddWebError(count) == webError + count

\* ----------------------------------------------------------------- requests
Request(platform, tokens, to, condition, ttl, nsubs, retry, sync, hasWg, hasLog) ==
    [Platform |-> platform, Tokens |-> tokens, To |-> to, Condition |-> condition,
     TimeToLive |-> ttl, Subscriptions |-> SubscriptionList(nsubs), Retry |-> retry,
     sync |-> sync, hasWg |-> hasWg, hasLog |-> hasLog]

\* the requests handed to PushToWeb: Web requests of 0..MaxSubs subscriptions and
\* requests of another platform routed to it, with and without a token
SendReqs ==
    { Request(PlatformWeb, <<>>, <<>>, "", <<>>, n, r, s, g, l) :
        n \in 0..MaxSubs, r \in -1..(MaxConfRetry + 1),
        s \in BOOLEAN, g \in BOOLEAN, l \in BOOLEAN }
    \cup
    { Request(PlatformAndroid, t, <<>>, "", <<>>, n, r, s, g, l) :
        t \in {<<>>, <<"t">>}, n \in 0..1, r \in {0, 1},
        s \in BOOLEAN, g \in BOOLEAN, l \in BOOLEAN }

NoReq == Request(PlatformWeb, <<>>, <<>>, "", <<>>, 0, 0, FALSE, FALSE, FALSE)

\* ------------------------------------------------------------------- Init
InitWorkers(active, reqs, start) ==
    /\ conf \in -1..MaxConfRetry
    /\ webSuccess = 0
    /\ webError = 0
    /\ \E r \in [active -> reqs] :
            req = [w \in Workers |-> IF w \in active THEN r[w] ELSE NoReq]
    /\ wg = [w \in Workers |-> 0]
    /\ log = [w \in Workers |-> <<>>]
    /\ caller = [w \in Workers |-> "none"]
    /\ pc = [w \in Workers |-> IF w \in active THEN start ELSE "off"]
    /\ doSync = [w \in Workers |-> FALSE]
    /\ retryCount = [w \in Workers |-> 0]
    /\ maxRetry = [w \in Workers |-> 0]
    /\ err = [w \in Workers |-> NoError]
    /\ isError = [w \in Workers |-> FALSE]
    /\ successCount = [w \in Workers |-> 0]
    /\ failureCount = [w \in Workers |-> 0]
    /\ idx = [w \in Workers |-> 0]
    /\ ret = [w \in Workers |-> FALSE]
    /\ hist = [w \in Workers |-> <<>>]
    /\ calls = [w \in Workers |-> <<>>]
    /\ statCalls = [w \in Workers |-> 0]
    /\ helperCalls = [w \in Workers |-> NoHelperCalls]

Init == InitWorkers({1}, SendReqs, "idle")

\* ---------------------------------------------------------------- PushToWeb
\* the caller attaches the handles, counts the request in and hands it over
Submit(w) ==
    /\ pc[w] = "idle"
    /\ wg' = [wg EXCEPT ![w] = AddWaitCount(req[w], wg[w])]
    /\ caller' = [caller EXCEPT ![w] = IF req[w].hasWg THEN "waiting" ELSE "none"]
    /\ pc' = [pc EXCEPT ![w] = "start"]
    /\ helperCalls' = [helperCalls EXCEPT ![w].adds = @ + 1]
    /\ UNCHANGED <<conf, store, req, log, locals, ret, hist, calls, statCalls>>

\* wg.Wait() of the caller returns when the counter is zero
Wait(w) ==
    /\ caller[w] = "waiting"
    /\ wg[w] = 0
    /\ caller' = [caller EXCEPT ![w] = "released"]
    /\ UNCHANGED <<conf, store, req, wg, log, pc, locals, ret, hist, calls, statCalls, helperCalls>>

\* the override taken without comparing it to the configured maximum
EffectiveMaxRetryUnchecked(retry, configured) ==
    IF retry > 0 THEN retry ELSE configured

EffectiveMaxRetry(retry, configured) ==
    IF retry > 0 /\ retry < configured THEN retry ELSE configured

\* a loop that stops before the last subscription
LoopPcSkipLast(r, i) == IF i < Len(r.Subscriptions) THEN "push" ELSE "success"

\* position after the range loop reached index i of the subscriptions of r
LoopPc(r, i) == IF i <= Len(r.Subscriptions) THEN "push" ELSE "success"

\* the deferred call registered whatever the sync flag is
DeferredAlways(sync, p, c) == WaitDone(p, c)

\* lines 38-40: the deferred call runs at every return of a synchronous send
Deferred(sync, p, c) == IF sync THEN WaitDone(p, c) ELSE c

\* the error of CheckMessage ignored
RejectedNever(e) == FALSE

\* line 52: if err != nil
Rejected(e) == e # NoError

\* return value of PushToWeb after a rejected request
RejectedResult == FALSE

\* one retry too many
RetryAgainOffByOne(failed, count, budget) == failed /\ count <= budget

\* no retry at all
RetryNever(failed, count, budget) == FALSE

\* whether PushToWeb jumps back to the Retry label after an attempt
RetryAgain(failed, count, budget) == failed /\ count < budget

\* lines 35-60: the deferred WaitDone, the budget, the validation; a rejected
\* request returns at once and the deferred call runs
Begin(w) ==
    /\ pc[w] = "start"
    /\ doSync' = [doSync EXCEPT ![w] = req[w].sync]
    /\ retryCount' = [retryCount EXCEPT ![w] = 0]
    /\ maxRetry' = [maxRetry EXCEPT ![w] = EffectiveMaxRetry(req[w].Retry, conf)]
    /\ err' = [err EXCEPT ![w] = CheckMessage(req[w])]
    /\ IF Rejected(CheckMessage(req[w]))
       THEN /\ pc' = [pc EXCEPT ![w] = "done"]
            /\ ret' = [ret EXCEPT ![w] = RejectedResult]
            /\ wg' = [wg EXCEPT ![w] = Deferred(req[w].sync, req[w], wg[w])]
            /\ helperCalls' = [helperCalls EXCEPT ![w].dones =
                                    IF req[w].sync THEN @ + 1 ELSE @]
            /\ UNCHANGED <<isError, successCount, failureCount, idx, hist>>
       ELSE \* Retry: the first attempt starts
            /\ isError' = [isError EXCEPT ![w] = FALSE]
            /\ successCount' = [successCount EXCEPT ![w] = 0]
            /\ failureCount' = [failureCount EXCEPT ![w] = 0]
            /\ idx' = [idx EXCEPT ![w] = 1]
            /\ hist' = [hist EXCEPT ![w] = Append(hist[w], <<>>)]
            /\ pc' = [pc EXCEPT ![w] = LoopPc(req[w], 1)]
            /\ UNCHANGED <<ret, wg, helperCalls>>
    /\ UNCHANGED <<conf, store, req, log, caller, calls, statCalls>>

\* the flag after the push to one subscription
FlagAfter(flag, failed) == failed

\* an entry for every push, succeeded ones included
LogAfterEvery(p, l, sync, subscription, outcome) ==
    IF sync
    THEN AddLog(p, l, getLogPushEntry(IF outcome # Ok THEN "failed-push" ELSE "succeeded-push",
                                      webToken(subscription)))
    ELSE l

\* the log after the push to one subscription with the given outcome
LogAfter(p, l, sync, subscription, outcome) ==
    IF outcome # Ok
    THEN IF sync
         THEN \* lines 78-99: with or without a response, one entry
              AddLog(p, l, getLogPushEntry(FailedPush, webToken(subscription)))
         ELSE l
    ELSE l   \* LogPush(SucceededPush, ...) writes to the access log only

\* a count taken down instead of up
CountAfterDown(count, taken) == IF taken THEN count - 1 ELSE count

\* a failure counted twice
CountAfterTwice(count, taken) == IF taken THEN count + 2 ELSE count

\* a count that misses its increment
CountAfterStuck(count, taken) == count

\* lines 74 and 103: failureCount++ / successCount++ in the branch taken
CountAfter(count, taken) == IF taken THEN count + 1 ELSE count

\* lines 68-106: one iteration of the range loop, one call of WebClient.Push
PushOne(w) ==
    /\ pc[w] = "push"
    /\ \E outcome \in Outcomes :
        LET subscription == req[w].Subscriptions[idx[w]]
            failed == outcome # Ok
        IN  /\ isError' = [isError EXCEPT ![w] = FlagAfter(isError[w], failed)]
            /\ failureCount' = [failureCount EXCEPT ![w] = CountAfter(@, failed)]
            /\ successCount' = [successCount EXCEPT ![w] = CountAfter(@, ~failed)]
            /\ log' = [log EXCEPT ![w] = LogAfter(req[w], log[w], doSync[w], subscription, outcome)]
            /\ hist' = [hist EXCEPT ![w] =
                   [@ EXCEPT ![Len(@)] = Append(@, IF failed THEN "fail" ELSE "ok")]]
            /\ calls' = [calls EXCEPT ![w] = Append(@, subscription)]
            /\ helperCalls' = [helperCalls EXCEPT ![w].logs =
                                    IF failed /\ doSync[w] THEN @ + 1 ELSE @]
    /\ idx' = [idx EXCEPT ![w] = @ + 1]
    /\ pc' = [pc EXCEPT ![w] = LoopPc(req[w], idx[w] + 1)]
    /\ UNCHANGED <<conf, store, req, wg, caller, doSync, retryCount, maxRetry, err, ret, statCalls>>

\* line 109
ReportSuccess(w) ==
    /\ pc[w] = "success"
    /\ webSuccess' = AddWebSuccess(successCount[w])
    /\ statCalls' = [statCalls EXCEPT ![w] = @ + 1]
    /\ pc' = [pc EXCEPT ![w] = "error"]
    /\ UNCHANGED <<conf, webError, req, wg, log, caller, locals, ret, hist, calls, helperCalls>>

\* lines 110-118: the failure counter, then either goto Retry or the return
\* with the deferred WaitDone
ReportError(w) ==
    /\ pc[w] = "error"
    /\ webError' = AddWebError(failureCount[w])
    /\ statCalls' = [statCalls EXCEPT ![w] = @ + 1]
    /\ IF RetryAgain(isError[w], retryCount[w], maxRetry[w])
       THEN /\ retryCount' = [retryCount EXCEPT ![w] = @ + 1]
            /\ isError' = [isError EXCEPT ![w] = FALSE]
            /\ successCount' = [successCount EXCEPT ![w] = 0]
            /\ failureCount' = [failureCount EXCEPT ![w] = 0]
            /\ idx' = [idx EXCEPT ![w] = 1]
            /\ hist' = [hist EXCEPT ![w] = Append(hist[w], <<>>)]
            /\ pc' = [pc EXCEPT ![w] = LoopPc(req[w], 1)]
            /\ UNCHANGED <<ret, wg, helperCalls>>
       ELSE /\ pc' = [pc EXCEPT ![w] = "done"]
            /\ ret' = [ret EXCEPT ![w] = isError[w]]
            /\ wg' = [wg EXCEPT ![w] = Deferred(doSync[w], req[w], wg[w])]
            /\ helperCalls' = [helperCalls EXCEPT ![w].dones =
                                    IF doSync[w] THEN @ + 1 ELSE @]
            /\ UNCHANGED <<retryCount, isError, successCount, failureCount, idx, hist>>
    /\ UNCHANGED <<conf, webSuccess, req, log, caller, doSync, maxRetry, err, calls>>

Next ==
    \E w \in Workers :
        \/ Submit(w)
        \/ Wait(w)
        \/ Begin(w)
        \/ PushOne(w)
        \/ ReportSuccess(w)
        \/ ReportError(w)

Spec == Init /\ [][Next]_vars

\* a worker runs PushToWeb to its end and a waiting caller is woken up
FairSpec == Spec /\ \A w \in Workers : WF_vars(Submit(w) \/ Begin(w) \/ PushOne(w)
                                              \/ ReportSuccess(w) \/ ReportError(w) \/ Wait(w))

\* ------------------------------------------------- the workers side by side
\* every worker of the pool sends one synchronous Web request of one or two
\* subscriptions, with at most one retry configured
ConcReqs ==
    {r \in SendReqs : /\ r.Platform = PlatformWeb
                      /\ Len(r.Subscriptions) \in {1, 2}
                      /\ r.Retry = 0
                      /\ r.sync /\ r.hasWg /\ ~r.hasLog}

InitConc == InitWorkers(Workers, ConcReqs, "idle") /\ conf \in {0, 1}

SpecConc == InitConc /\ [][Next]_vars

\* ------------------------------------------- the helpers called on their own
\* the holder of a request calls AddWaitCount, WaitDone and AddLog on it in any
\* order, at most MaxHelperCalls times each, with and without the handles
HelperReqs ==
    { Request(PlatformWeb, <<>>, <<>>, "", <<>>, 1, 0, s, g, l) :
        s \in BOOLEAN, g \in BOOLEAN, l \in BOOLEAN }

InitHelpers == InitWorkers({1}, HelperReqs, "helpers")

CallAddWaitCount(w) ==
    /\ pc[w] = "helpers"
    /\ helperCalls[w].adds < MaxHelperCalls
    /\ wg' = [wg EXCEPT ![w] = AddWaitCount(req[w], wg[w])]
    /\ helperCalls' = [helperCalls EXCEPT ![w].adds = @ + 1]
    /\ UNCHANGED <<conf, store, req, log, caller, pc, locals, ret, hist, calls, statCalls>>

CallWaitDone(w) ==
    /\ pc[w] = "helpers"
    /\ helperCalls[w].dones < MaxHelperCalls
    /\ wg' = [wg EXCEPT ![w] = WaitDone(req[w], wg[w])]
    /\ pc' = [pc EXCEPT ![w] = IF Panics(wg'[w]) THEN "panic" ELSE @]
    /\ helperCalls' = [helperCalls EXCEPT ![w].dones = @ + 1]
    /\ UNCHANGED <<conf, store, req, log, caller, locals, ret, hist, calls, statCalls>>

CallAddLog(w) ==
    /\ pc[w] = "helpers"
    /\ helperCalls[w].logs < MaxHelperCalls
    /\ \E k \in 1..MaxSubs :
            log' = [log EXCEPT ![w] =
                        AddLog(req[w], log[w],
                               getLogPushEntry(FailedPush, webToken(Subscription(k))))]
    /\ helperCalls' = [helperCalls EXCEPT ![w].logs = @ + 1]
    /\ UNCHANGED <<conf, store, req, wg, caller, pc, locals, ret, hist, calls, statCalls>>

\* the same synchronous request sent twice, by worker 1 with a handle attached
\* and by worker 2 with none
TwinReqs ==
    { Request(PlatformWeb, <<>>, <<>>, "", <<>>, n, 0, TRUE, g, l) :
        n \in {1, 2}, g \in BOOLEAN, l \in BOOLEAN }

Bare(r) == [r EXCEPT !.hasWg = FALSE, !.hasLog = FALSE]

InitTwin ==
    /\ InitWorkers({1, 2}, TwinReqs, "idle")
    /\ conf \in {0, 1}
    /\ req[1].hasWg \/ req[1].hasLog
    /\ req[2] = Bare(req[1])

InitHandles == InitHelpers \/ InitTwin

NextHandles ==
    \/ Next
    \/ \E w \in Workers : CallAddWaitCount(w)
    \/ \E w \in Workers : CallWaitDone(w)
    \/ \E w \in Workers : CallAddLog(w)

SpecHandles == InitHandles /\ [][NextHandles]_vars


\* ------------------------------------------------- CheckMessage on its own
Prefixed(s) == TopicsPrefix \o s

CheckReqs ==
    { Request(p, t, to, c, ttl, n, 0, FALSE, FALSE, FALSE) :
        p \in {PlatformIos, PlatformAndroid, PlatformWeb, PlatformWeb + 1},
        t \in {<<>>, <<"">>, <<"t">>, <<"", "t">>, <<"t", "">>,
               TokenList(MaxTokens), TokenList(MaxTokens + 1),
               <<"">> \o TokenList(MaxTokens)},
        to \in {<<>>, <<"a">>, <<"/", "t", "o", "p">>, Prefixed(<<>>), Prefixed(<<"a">>)},
        c \in {"", "c"},
        ttl \in {<<>>, <<0>>, <<MaxTimeToLive>>, <<MaxTimeToLive + 1>>},
        n \in 0..MaxSubs }

InitCheck == InitWorkers({1}, CheckReqs, "check")

\* validate(req) called on its own
Validate(w) ==
    /\ pc[w] = "check"
    /\ err' = [err EXCEPT ![w] = CheckMessage(req[w])]
    /\ pc' = [pc EXCEPT ![w] = "checked"]
    /\ UNCHANGED <<conf, store, req, wg, log, caller, doSync, retryCount, maxRetry,
                   isError, successCount, failureCount, idx, ret, hist, calls, statCalls, helperCalls>>

NextCheck == \E w \in Workers : Validate(w)

SpecCheck == InitCheck /\ [][NextCheck]_vars

\* ================================================================== claims
Max(a, b) == IF a > b THEN a ELSE b

\* the retry budget as the specification states it
Budget(w) ==
    IF 0 < req[w].Retry /\ req[w].Retry < conf THEN req[w].Retry ELSE conf

Attempts(w) == Len(hist[w])

\* the pushes of attempt k of worker w that failed
Failures(w, k) == {i \in 1..Len(hist[w][k]) : hist[w][k][i] = "fail"}

RECURSIVE FailuresUpTo(_, _)
FailuresUpTo(w, k) ==
    IF k = 0 THEN 0 ELSE Cardinality(Failures(w, k)) + FailuresUpTo(w, k - 1)

\* the failed pushes of all attempts of worker w
TotalFailures(w) == FailuresUpTo(w, Attempts(w))

Finished(w) == pc[w] = "done"

Sent(w) == Finished(w) /\ err[w] = NoError

\* C1: for a valid Web request PushToWeb returns true iff the final attempt had
\* at least one failed subscription, wherever that subscription is in the list.
C1_ReturnsFinalAttemptFailed ==
    \A w \in Workers :
        (Sent(w) /\ req[w].Platform = PlatformWeb)
            => (ret[w] <=> Failures(w, Attempts(w)) # {})

\* C2 as stated: the attempts never exceed the retry budget (read for a positive
\* budget, where "at most budget attempts" still allows the first attempt).
C2_AttemptsWithinBudget ==
    \A w \in Workers : Budget(w) > 0 => Attempts(w) <= Budget(w)

\* C2 as amended: one first attempt and at most as many repeats as the budget, so
\* never more than budget + 1 attempts (one attempt when the budget is not positive).
C2_AttemptsWithinBudgetPlusOne ==
    \A w \in Workers : Attempts(w) <= Max(Budget(w), 0) + 1

C2_Witness ==
    \E w \in Workers :
        /\ Finished(w)
        /\ 0 < req[w].Retry /\ req[w].Retry < conf
        /\ Attempts(w) = req[w].Retry + 1
        /\ ret[w]

\* C3: for a synchronous request whose wait counter was incremented once, the
\* counter is decremented exactly once, at the return of PushToWeb on every exit
\* path and not before; the waiting caller is released only after the return, and
\* is released eventually.
C3_WaitDoneOnceAtExit ==
    /\ [](\A w \in Workers :
            (req[w].sync /\ req[w].hasWg /\ pc[w] \notin {"off", "idle"})
                => /\ wg[w] = IF Finished(w) THEN 0 ELSE 1
                   /\ (caller[w] = "released" => Finished(w)))
    /\ \A w \in Workers :
            (req[w].sync /\ req[w].hasWg /\ pc[w] = "start") ~> (caller[w] = "released")

C3_Witness ==
    \E w \in Workers :
        /\ req[w].sync /\ req[w].hasWg
        /\ caller[w] = "released"
        /\ Attempts(w) = MaxConfRetry + 1
        /\ ret[w]

\* C4: a request that CheckMessage rejects makes PushToWeb return true (failed).
C4_RejectedReturnsTrue ==
    \A w \in Workers : (Finished(w) /\ err[w] # NoError) => ret[w] = TRUE

\* C5: a request that CheckMessage rejects causes no client call, no call of the
\* counter store and no log entry.
C5_RejectedTouchesNothing ==
    \A w \in Workers :
        (pc[w] \notin {"off", "idle", "start"} /\ CheckMessage(req[w]) # NoError)
            => /\ Finished(w)
               /\ hist[w] = <<>>
               /\ statCalls[w] = 0
               /\ log[w] = <<>>
               /\ webSuccess = 0 /\ webError = 0

C5_Witness ==
    \E w \in Workers :
        /\ Finished(w)
        /\ err[w] = ErrNoSubscription
        /\ req[w].sync /\ req[w].hasLog

\* the scenario of the specification: two subscriptions, the first succeeds and
\* the second fails in attempt 1, both succeed in attempt 2
Scenario(w) ==
    /\ Len(req[w].Subscriptions) = 2
    /\ Budget(w) >= 2
    /\ Attempts(w) >= 1
    /\ hist[w][1] = <<"ok", "fail">>
    /\ Attempts(w) >= 2 => hist[w][2] = <<"ok", "ok">>

\* C6 as stated: in synchronous mode every push of every attempt adds one entry
\* to the log, so the log has attempts x subscriptions entries (4 in the scenario).
C6_LogEntryPerPush ==
    \A w \in Workers :
        (Sent(w) /\ req[w].sync /\ req[w].hasLog)
            => /\ Len(log[w]) = Attempts(w) * Len(req[w].Subscriptions)
               /\ (Scenario(w) => Len(log[w]) = 4)

\* C6 as amended: in synchronous mode every failed push of every attempt adds
\* one Failed entry to the log and a succeeded push adds none, so the log has as
\* many entries as pushes failed over all attempts (1 in the scenario).
C6_LogEntryPerFailedPush ==
    \A w \in Workers :
        (req[w].sync /\ req[w].hasLog)
            => /\ Len(log[w]) = TotalFailures(w)
               /\ \A i \in 1..Len(log[w]) : log[w][i].Type = FailedPush
               /\ (Sent(w) /\ Scenario(w) => Len(log[w]) = 1)

C6_Witness ==
    \E w \in Workers :
        /\ Sent(w) /\ req[w].sync /\ req[w].hasLog
        /\ Scenario(w)
        /\ Len(log[w]) = 1

\* C7: in the scenario exactly two attempts are made, the failure counter grows
\* by 1, the success counter by 3 and PushToWeb returns false.
C7_ScenarioTotals ==
    \A w \in Workers :
        (Sent(w) /\ Scenario(w))
            => /\ Attempts(w) = 2
               /\ webError = 1
               /\ webSuccess = 3
               /\ ret[w] = FALSE

C7_Witness ==
    \E w \in Workers :
        /\ Sent(w) /\ Scenario(w)
        /\ Attempts(w) = 2 /\ webError = 1 /\ webSuccess = 3

\* C8: the budget PushToWeb uses is the request's Retry when 0 < Retry < MaxRetry
\* and the configured MaxRetry otherwise (Retry = 0, negative, or >= MaxRetry);
\* it is never larger than the configured MaxRetry.
C8_EffectiveBudget ==
    \A w \in Workers :
        (pc[w] \notin {"off", "idle", "start"})
            => /\ (0 < req[w].Retry /\ req[w].Retry < conf) => maxRetry[w] = req[w].Retry
               /\ req[w].Retry <= 0 => maxRetry[w] = conf
               /\ req[w].Retry >= conf => maxRetry[w] = conf
               /\ maxRetry[w] <= conf

C8_Witness ==
    \E w \in Workers :
        /\ Finished(w)
        /\ req[w].Retry > conf /\ conf > 0
        /\ maxRetry[w] = conf
        /\ Attempts(w) = conf + 1

\* C9 as stated: a request of another platform than Web with no token and no
\* topic or condition is rejected for its missing registration ID.
C9_NoTokenNoTopicRejected ==
    \A w \in Workers :
        (pc[w] = "checked" /\ req[w].Platform # PlatformWeb
            /\ req[w].Tokens = <<>> /\ ~IsTopic(req[w]))
            => err[w] = ErrNoRegistrationID

\* C9 as amended: a request of another platform than Web with no token, an
\* empty To and an empty Condition is rejected for its missing registration ID.
C9_NoTokenNoToRejected ==
    \A w \in Workers :
        (pc[w] = "checked" /\ req[w].Platform # PlatformWeb
            /\ req[w].Tokens = <<>> /\ req[w].To = <<>> /\ req[w].Condition = "")
            => err[w] = ErrNoRegistrationID

C9_Witness ==
    \E w \in Workers :
        /\ pc[w] = "checked" /\ req[w].Platform = PlatformIos
        /\ req[w].Tokens = <<>> /\ req[w].To = <<>> /\ req[w].Condition = ""
        /\ err[w] = ErrNoRegistrationID

\* C10: for a Web request CheckMessage fails with the missing-subscription error
\* iff Subscriptions is empty and succeeds otherwise, whatever Tokens, To,
\* Condition and TimeToLive are.
C10_WebOnlySubscriptions ==
    \A w \in Workers :
        (pc[w] = "checked" /\ req[w].Platform = PlatformWeb)
            => err[w] = IF req[w].Subscriptions = <<>> THEN ErrNoSubscription ELSE NoError

C10_Witness ==
    \E w \in Workers :
        /\ pc[w] = "checked" /\ req[w].Platform = PlatformWeb
        /\ req[w].Subscriptions # <<>>
        /\ req[w].Tokens = <<"">> /\ req[w].To = <<>> /\ req[w].Condition = ""
        /\ req[w].TimeToLive = <<MaxTimeToLive + 1>>
        /\ err[w] = NoError

\* C11: an Android request with more than 1000 tokens is rejected by
\* CheckMessage whatever its other fields are.
C11_TooManyTokensRejected ==
    \A w \in Workers :
        (pc[w] = "checked" /\ req[w].Platform = PlatformAndroid
            /\ Len(req[w].Tokens) > MaxTokens)
            => err[w] # NoError

C11_Witness ==
    \E w \in Workers :
        /\ pc[w] = "checked" /\ req[w].Platform = PlatformAndroid
        /\ Len(req[w].Tokens) = MaxTokens + 1 /\ req[w].Tokens[1] # ""
        /\ req[w].Condition # "" /\ req[w].TimeToLive = <<>>
        /\ err[w] = ErrTooManyTokens

\* the rules of the validator, each for the platforms it applies to
RuleNoSubscription(r) == r.Platform = PlatformWeb /\ r.Subscriptions = <<>>

RuleNoRecipient(r) ==
    r.Platform # PlatformWeb /\ r.Tokens = <<>> /\ r.To = <<>> /\ ~IsTopic(r)

RuleEmptyFirstToken(r) ==
    r.Platform # PlatformWeb /\ r.Tokens # <<>> /\ Head(r.Tokens) = ""

RuleTooManyRecipients(r) == r.Platform = PlatformAndroid /\ Len(r.Tokens) > MaxTokens

RuleTimeToLive(r) ==
    /\ r.Platform = PlatformAndroid
    /\ r.TimeToLive # <<>>
    /\ Head(r.TimeToLive) \notin 0..MaxTimeToLive

\* the rules violated by r, numbered in the order of the specification
Violated(r) ==
    {i \in 1..5 : \/ i = 1 /\ RuleNoSubscription(r)
                  \/ i = 2 /\ RuleNoRecipient(r)
                  \/ i = 3 /\ RuleEmptyFirstToken(r)
                  \/ i = 4 /\ RuleTooManyRecipients(r)
                  \/ i = 5 /\ RuleTimeToLive(r)}

Reason(i) ==
    CASE i = 1 -> ErrNoSubscription
      [] i = 2 -> ErrNoRegistrationID
      [] i = 3 -> ErrEmptyToken
      [] i = 4 -> ErrTooManyTokens
      [] i = 5 -> ErrTimeToLive

\* C12: CheckMessage returns the reason of the earliest violated rule in the
\* order empty-subscriptions, empty-recipients-and-no-topic, empty-first-token,
\* too-many-recipients, TTL-out-of-range, and ok when no rule is violated.
C12_FirstViolatedRule ==
    \A w \in Workers :
        pc[w] = "checked"
            => LET v == Violated(req[w])
               IN  err[w] = IF v = {} THEN NoError
                            ELSE Reason(CHOOSE i \in v : \A j \in v : i <= j)

C12_Witness ==
    \E w \in Workers :
        /\ pc[w] = "checked"
        /\ Violated(req[w]) = {3, 4, 5}
        /\ err[w] = ErrEmptyToken

RECURSIVE CallsUpTo(_)
CallsUpTo(n) == IF n = 0 THEN 0 ELSE Len(calls[n]) + CallsUpTo(n - 1)

\* the calls of WebClient.Push made by all workers
TotalCalls == CallsUpTo(NumWorkers)

AllFinished == \A w \in Workers : Finished(w)

\* C13: when the workers have finished their sends against the shared counter
\* store, the Web success counter plus the Web failure counter equals the number
\* of pushes made by all workers over all attempts.
C13_CountersSumToPushes ==
    AllFinished => webSuccess + webError = TotalCalls

C13_Witness ==
    /\ AllFinished
    /\ \A w \in Workers : Attempts(w) = 2 /\ Len(req[w].Subscriptions) = 2
    /\ webSuccess > 0 /\ webError > NumWorkers
    /\ webSuccess + webError = 4 * NumWorkers

\* C14: the Web success counter and the Web failure counter never decrease, and
\* the amounts handed to AddWebSuccess and AddWebError are never negative.
C14_CountersMonotonic ==
    /\ [](\A w \in Workers : successCount[w] >= 0 /\ failureCount[w] >= 0)
    /\ [][webSuccess' >= webSuccess /\ webError' >= webError]_vars

C14_Witness ==
    \E w \in Workers :
        /\ Finished(w) /\ Attempts(w) >= 2
        /\ webSuccess >= 1 /\ webError >= 2

\* C15: an attempt that ends with a failed subscription while fewer attempts than
\* the effective budget have been made is followed by another attempt; so a send
\* whose last attempt had a failure has used up its budget.
C15_FailureRetriedWithinBudget ==
    \A w \in Workers :
        (Sent(w) /\ Failures(w, Attempts(w)) # {})
            => ~(Attempts(w) < maxRetry[w])

RECURSIVE Repeat(_, _)
Repeat(seq, n) == IF n = 0 THEN <<>> ELSE Repeat(seq, n - 1) \o seq

\* the attempt of worker w that is under way or was the last
Current(w) == hist[w][Attempts(w)]

\* worker w is between the pushes of an attempt
Pushing(w) == pc[w] = "push"

\* C16: every attempt, a repeated one included, calls the client once for every
\* subscription of the request in the original order, whatever succeeded before,
\* and hands its counts, which add up to the number of subscriptions, to the store.
C16_WholeBatchRetry ==
    \A w \in Workers :
        Attempts(w) >= 1
            => /\ calls[w] = Repeat(req[w].Subscriptions, Attempts(w) - 1)
                                \o SubSeq(req[w].Subscriptions, 1, Len(Current(w)))
               /\ ~Pushing(w)
                    => /\ Len(Current(w)) = Len(req[w].Subscriptions)
                       /\ successCount[w] + failureCount[w] = Len(req[w].Subscriptions)
               /\ Finished(w) => statCalls[w] = 2 * Attempts(w)

C16_Witness ==
    \E w \in Workers :
        /\ Sent(w) /\ Attempts(w) = 2
        /\ hist[w][1] = <<"ok", "fail">>
        /\ calls[w] = req[w].Subscriptions \o req[w].Subscriptions
        /\ statCalls[w] = 4

\* C17: a request that passes validation gets at least one attempt whatever the
\* budget is, each repeat follows a failed attempt and adds one to the retry
\* counter, which never passes the budget, and PushToWeb always returns.
C17_AtLeastOnceAndTerminates ==
    /\ [](\A w \in Workers :
            /\ (pc[w] \in {"push", "success", "error"} \/ Sent(w)) => Attempts(w) >= 1
            /\ retryCount[w] <= Max(maxRetry[w], 0)
            /\ Attempts(w) >= 1 => retryCount[w] = Attempts(w) - 1)
    /\ [][\A w \in Workers :
            (Len(hist[w]) >= 1 /\ Len(hist'[w]) > Len(hist[w]))
                => /\ retryCount'[w] = retryCount[w] + 1
                   /\ isError[w] /\ retryCount[w] < maxRetry[w]]_vars
    /\ \A w \in Workers : (pc[w] = "start") ~> Finished(w)

C17_Witness ==
    \E w \in Workers :
        /\ Sent(w)
        /\ conf = -1 /\ maxRetry[w] = -1
        /\ Attempts(w) = 1 /\ ret[w]

\* C18: an error of the platform client for one subscription does not end the
\* attempt: every attempt calls the client once per subscription, and the counts
\* of the attempt are the failed and the succeeded pushes, one each.
C18_ErrorDoesNotAbort ==
    \A w \in Workers :
        Attempts(w) >= 1
            => /\ failureCount[w] = Cardinality(Failures(w, Attempts(w)))
               /\ successCount[w] = Len(Current(w)) - Cardinality(Failures(w, Attempts(w)))
               /\ Len(calls[w]) = (Attempts(w) - 1) * Len(req[w].Subscriptions) + Len(Current(w))
               /\ (~Pushing(w)) => \A k \in 1..Attempts(w) :
                                      Len(hist[w][k]) = Len(req[w].Subscriptions)
               /\ Pushing(w) => idx[w] = Len(Current(w)) + 1

C18_Witness ==
    \E w \in Workers :
        /\ Sent(w)
        /\ hist[w][1] = <<"fail", "ok">>
        /\ webError = 1 /\ webSuccess = 1

RECURSIVE Flat(_, _)
\* the outcomes of the first k attempts of worker w, one after the other
Flat(w, k) == IF k = 0 THEN <<>> ELSE Flat(w, k - 1) \o hist[w][k]

RECURSIVE FailedTokensUpTo(_, _)
\* the tokens of the failed ones among the first n pushes of worker w, in order
FailedTokensUpTo(w, n) ==
    IF n = 0 THEN <<>>
    ELSE FailedTokensUpTo(w, n - 1)
            \o (IF Flat(w, Attempts(w))[n] = "fail" THEN <<webToken(calls[w][n])>> ELSE <<>>)

IsPrefix(s, t) == Len(s) <= Len(t) /\ SubSeq(t, 1, Len(s)) = s

\* C19: a send that is not synchronous leaves the log alone; in a synchronous
\* send the entries are those of the failed pushes in the order the pushes were
\* made, attempt after attempt, and entries are only ever added at the end.
C19_LogInArrivalOrder ==
    /\ [](\A w \in Workers :
            /\ ~req[w].sync => log[w] = <<>>
            /\ (req[w].sync /\ req[w].hasLog)
                  => [i \in 1..Len(log[w]) |-> log[w][i].Token]
                        = FailedTokensUpTo(w, Len(calls[w])))
    /\ [][\A w \in Workers : IsPrefix(log[w], log'[w])]_vars

C19_Witness ==
    \E w \in Workers :
        /\ Sent(w) /\ req[w].sync /\ req[w].hasLog
        /\ hist[w] = << <<"ok", "fail">>, <<"fail", "fail">> >>
        /\ [i \in 1..Len(log[w]) |-> log[w][i].Token.endpoint] = <<2, 1, 2>>

\* C20: a send that is not synchronous never calls WaitDone: an attached wait
\* group that was counted up once keeps its count and its waiter is not released.
C20_NoWaitDoneUnlessSync ==
    \A w \in Workers :
        (~req[w].sync /\ req[w].hasWg /\ pc[w] \notin {"off", "idle", "check", "checked"})
            => wg[w] = 1 /\ caller[w] = "waiting"

C20_Witness ==
    \E w \in Workers :
        /\ ~req[w].sync /\ req[w].hasWg
        /\ Sent(w) /\ Attempts(w) >= 2
        /\ wg[w] = 1 /\ caller[w] = "waiting"

\* C21: the request-scoped helpers are safe without a handle.  Whatever calls
\* were made on a request, a missing wait group leaves the wait count untouched
\* and a missing log accumulator leaves the log untouched; with the wait group
\* attached the wait count is the number of AddWaitCount calls minus the number
\* of WaitDone calls, and with the accumulator attached every AddLog call added
\* one entry.  A synchronous send of a request without handles never panics and,
\* once it and the send of the same request with handles have finished with the
\* same client outcomes, both returned the same value, made the same client
\* calls and the same counter updates.
C21_HelpersSafeWithoutHandle ==
    /\ \A w \in Workers :
        /\ wg[w] = IF req[w].hasWg
                   THEN helperCalls[w].adds - helperCalls[w].dones ELSE 0
        /\ Len(log[w]) = IF req[w].hasLog THEN helperCalls[w].logs ELSE 0
        /\ (req[w].sync /\ ~req[w].hasWg) => pc[w] # "panic"
    /\ \A v, w \in Workers :
        ( /\ v # w /\ pc[v] # "off"
          /\ req[w].sync /\ req[w] = Bare(req[v]) /\ req[v] # req[w]
          /\ Finished(v) /\ Finished(w) /\ hist[v] = hist[w] )
            => /\ ret[w] = ret[v]
               /\ calls[w] = calls[v]
               /\ statCalls[w] = statCalls[v]
               /\ helperCalls[w] = helperCalls[v]
               /\ webError = 2 * TotalFailures(w)
               /\ webSuccess = 2 * (Len(calls[w]) - TotalFailures(w))

C21_Witness ==
    /\ req[1].sync /\ req[1].hasWg /\ req[1].hasLog
    /\ req[2] = Bare(req[1])
    /\ Finished(1) /\ Finished(2)
    /\ hist[1] = << <<"ok", "fail">>, <<"fail", "fail">> >>
    /\ hist[2] = hist[1]
    /\ helperCalls[2] = [adds |-> 1, dones |-> 1, logs |-> 3]
    /\ wg[2] = 0 /\ log[2] = <<>> /\ Len(log[1]) = 3
    /\ ret[2] /\ webError = 6

====
